---- MODULE Spec2Model ----
(***************************************************************************)
(* Model of the NDEF framing decoders of eput_utils.c:                     *)
(*   get_ndef_tlv_offset  - TLV scan for the first NDEF entry              *)
(*   get_record           - decode of one NDEF record                      *)
(*   get_records          - decode of the (data, meta) record pair         *)
(* A buffer is a sequence of bytes; buf_len is its length.  Pointers into  *)
(* the buffer are byte offsets from its first byte.  A read at an index    *)
(* >= buf_len is undefined behaviour: it either faults or yields a byte of *)
(* whatever memory follows the buffer.                                     *)
(***************************************************************************)
EXTENDS Integers, Sequences, FiniteSets, TLC

VARIABLES buf, pre, op, pc, index, iters, ret, offset_p, reads, oob,
          calls, record, data_rec, meta_rec,
          ctype, value, buffer, before, dec, scale_arg

vars == <<buf, pre, op, pc, index, iters, ret, offset_p, reads, oob,
          calls, record, data_rec, meta_rec,
          ctype, value, buffer, before, dec, scale_arg>>

----------------------------------------------------------------------------
(* Program constants (eput_utils.h) *)

TLV_TYPE_NULL == 0

TLV_TYPE_TERMINATOR == 254

TLV_TYPE_NDEF == 3

TNF_URI == 3

SUCCESS == 0

ERR_REC_BUF_TRUNCATED == -20

ERR_REC_WRONG_TYPE == -21

(* "https://pma.inftech.hs-mannheim.de/eput" as character codes *)
RECORD_TYPE_SCHEME ==
    <<104, 116, 116, 112, 115, 58, 47, 47, 112, 109, 97, 46,
      105, 110, 102, 116, 101, 99, 104, 46,
      104, 115, 45, 109, 97, 110, 110, 104, 101, 105, 109, 46,
      100, 101, 47, 101, 112, 117, 116>>

(* The null pointer; every pointer into a buffer is an offset >= 0. *)
NULL == -1

(* Number of values of uint16_t. *)
UINT16_MOD == 256 * 256

----------------------------------------------------------------------------
(* Bounds of the model *)

MaxTlvLen == 5

MaxRecLen == 6

TailLen == 2

MaxCut == 2

(* Bytes of a codec buffer behind the encoded value *)
SpareBytes == 1

(* Longest bitmap *)
MaxBitmapLen == 2

----------------------------------------------------------------------------
(* Memory: the caller's buffer followed by whatever lies behind it. *)

Mem(b, t) == [buf |-> b, tail |-> t]

(* The byte at offset i from the start of the buffer. *)
Peek(m, i) ==
    IF i < Len(m.buf)
    THEN m.buf[i + 1]
    ELSE m.tail[((i - Len(m.buf)) % Len(m.tail)) + 1]

(* The indices of rd that lie outside a buffer of buf_len bytes. *)
OutOfBounds(rd, buf_len) == {i \in rd : i >= buf_len}

(* x & mask for a mask with a single bit set. *)
BitAnd(x, mask) == ((x \div mask) % 2) * mask

(* A uint32_t / unsigned int value, held as its two 16-bit halves (TLC's
   integers are 32-bit signed and cannot hold it). *)
U32(n) == [hi |-> n \div UINT16_MOD, lo |-> n % UINT16_MOD]

(* a + b in unsigned int: the carry out of the high half is dropped. *)
U32Add(a, b) ==
    [hi |-> (a.hi + b.hi + ((a.lo + b.lo) \div UINT16_MOD)) % UINT16_MOD,
     lo |-> (a.lo + b.lo) % UINT16_MOD]

(* n < u for a size_t n and an unsigned int u converted to size_t. *)
SizeLess(n, u) ==
    \/ n \div UINT16_MOD < u.hi
    \/ n \div UINT16_MOD = u.hi /\ n % UINT16_MOD < u.lo

(* Conversion of an unsigned int value to int (two's complement). *)
ToInt(u) ==
    IF u.hi >= UINT16_MOD \div 2
    THEN (u.hi - UINT16_MOD) * UINT16_MOD + u.lo
    ELSE u.hi * UINT16_MOD + u.lo

----------------------------------------------------------------------------
(* TLV scanner *)

(* tlv_entry without the skip of a foreign entry's value bytes. *)
tlv_entry_noskip(type, length, idx, rd) ==
    IF type = TLV_TYPE_NDEF
    THEN [kind |-> "return", index |-> idx, length |-> length, reads |-> rd]
    ELSE [kind |-> "continue", index |-> idx, length |-> length, reads |-> rd]

(* tlv_entry with "index = length" in place of "index += length". *)
tlv_entry_rewind(type, length, idx, rd) ==
    IF type = TLV_TYPE_NDEF
    THEN [kind |-> "return", index |-> idx, length |-> length, reads |-> rd]
    ELSE [kind |-> "continue", index |-> length, length |-> length,
          reads |-> rd]

(* Lines 386-391: the entry's length is known and index is behind its
   header. rd are the indices read by this iteration. *)
tlv_entry(type, length, idx, rd) ==
    IF type = TLV_TYPE_NDEF
    THEN [kind |-> "return", index |-> idx, length |-> length, reads |-> rd]
    ELSE [kind |-> "continue", index |-> idx + length, length |-> length,
          reads |-> rd]

(* One iteration of the while loop of get_ndef_tlv_offset, loop test
   included. kind is how the iteration ends: "exit" (loop test fails),
   "break", "continue" or "return" (the offset is stored and the length
   returned). *)
tlv_iteration(m, buf_len, idx) ==
    IF ~(idx < buf_len)
    THEN [kind |-> "exit", index |-> idx, length |-> 0, reads |-> {}]
    ELSE
    LET type == Peek(m, idx)
        i1 == idx + 1
    IN  IF type = TLV_TYPE_NULL
        THEN [kind |-> "continue", index |-> idx + 1, length |-> 0,
              reads |-> {idx}]
        ELSE IF type = TLV_TYPE_TERMINATOR
        THEN [kind |-> "break", index |-> idx, length |-> 0, reads |-> {idx}]
        ELSE IF buf_len < i1 + 1
        THEN [kind |-> "break", index |-> i1, length |-> 0, reads |-> {idx}]
        ELSE IF Peek(m, i1) = 255
        THEN IF buf_len < i1 + 2
             THEN [kind |-> "break", index |-> i1, length |-> 0,
                   reads |-> {idx, i1}]
             ELSE LET length == (Peek(m, i1 + 1) * 256 + Peek(m, i1 + 2))
                                    % UINT16_MOD
                      rd == {idx, i1, i1 + 1, i1 + 2}
                  IN  IF length = 65535
                      THEN [kind |-> "break", index |-> i1 + 3,
                            length |-> length, reads |-> rd]
                      ELSE tlv_entry(type, length, i1 + 3, rd)
        ELSE tlv_entry(type, Peek(m, i1), i1 + 1, {idx, i1})

----------------------------------------------------------------------------
(* Record decoder *)

bytes_to_uint32(m, p) ==
    [hi |-> Peek(m, p) * 256 + Peek(m, p + 1),
     lo |-> Peek(m, p + 2) * 256 + Peek(m, p + 3)]

(* Lines 409-423: the header fields of the record at buf + base, the widths
   of its payload-length and id-length fields, and the indices read. *)
record_header(m, base) ==
    LET flags == Peek(m, base)
        id_length_present == BitAnd(flags, 8)
        short_record == BitAnd(flags, 16)
        pl_length == IF short_record > 0 THEN 1 ELSE 4
    IN  [tnf |-> flags % 8,
         type_length |-> Peek(m, base + 1),
         payload_length |-> IF short_record > 0
                            THEN U32(Peek(m, base + 2))
                            ELSE bytes_to_uint32(m, base + 2),
         pl_length |-> pl_length,
         idl_length |-> IF id_length_present > 0 THEN 1 ELSE 0,
         id_length |-> IF id_length_present > 0
                       THEN Peek(m, base + 2 + pl_length)
                       ELSE 0,
         reads |-> {base, base + 1}
                     \cup {base + 2 + k : k \in 0 .. (pl_length - 1)}
                     \cup (IF id_length_present > 0
                           THEN {base + 2 + pl_length} ELSE {})]

(* 2 + pl_length + idl_length + type_length + id_length + payload_length:
   the int operands are added as int, the uint32_t operand makes the sum
   an unsigned int. *)
record_total(h) ==
    U32Add(U32(2 + h.pl_length + h.idl_length + h.type_length + h.id_length),
           h.payload_length)

(* record_fields with the id-length byte left out of the offsets. *)
record_fields_noidl(h, base) ==
    [tnf |-> h.tnf,
     type_length |-> h.type_length,
     type |-> base + 2 + h.pl_length,
     id_length |-> h.id_length,
     id |-> IF h.id_length > 0
            THEN base + 2 + h.pl_length + h.type_length
            ELSE NULL,
     payload_length |-> h.payload_length,
     payload |-> base + 2 + h.pl_length + h.type_length + h.id_length]

(* Lines 423-428 and 434-440: what is stored to the caller's record. *)
record_fields(h, base) ==
    [tnf |-> h.tnf,
     type_length |-> h.type_length,
     type |-> base + 2 + h.pl_length + h.idl_length,
     id_length |-> h.id_length,
     id |-> IF h.id_length > 0
            THEN base + 2 + h.pl_length + h.idl_length + h.type_length
            ELSE NULL,
     payload_length |-> h.payload_length,
     payload |-> base + 2 + h.pl_length + h.idl_length + h.type_length
                    + h.id_length]

(* get_record storing tnf and type_length before the length check. *)
get_record_early_store(m, base, buf_len, rec) ==
    IF buf_len < 2
    THEN [ret |-> ERR_REC_BUF_TRUNCATED, record |-> rec, reads |-> {}]
    ELSE LET h == record_header(m, base)
         IN  IF SizeLess(buf_len, record_total(h))
             THEN [ret |-> ERR_REC_BUF_TRUNCATED,
                   record |-> [rec EXCEPT !.tnf = h.tnf,
                                          !.type_length = h.type_length],
                   reads |-> h.reads]
             ELSE [ret |-> ToInt(record_total(h)),
                   record |-> record_fields(h, base),
                   reads |-> h.reads]

(* get_record(buf + base, buf_len, record): ret is the value returned,
   record the contents of the caller's record afterwards, reads the indices
   read, counted from the start of the whole buffer. *)
get_record(m, base, buf_len, rec) ==
    IF buf_len < 2
    THEN [ret |-> ERR_REC_BUF_TRUNCATED, record |-> rec, reads |-> {}]
    ELSE LET h == record_header(m, base)
         IN  IF SizeLess(buf_len, record_total(h))
             THEN [ret |-> ERR_REC_BUF_TRUNCATED, record |-> rec,
                   reads |-> h.reads]
             ELSE [ret |-> ToInt(record_total(h)),
                   record |-> record_fields(h, base),
                   reads |-> h.reads]

----------------------------------------------------------------------------
(* Message decoder *)

(* starts_with(str, str_len, prefix) for a non-null str: strncmp reads str
   up to the first byte that differs from prefix. *)
starts_with(m, str, str_len, prefix) ==
    LET prefix_len == Len(prefix)
        diff == {k \in 0 .. (prefix_len - 1) : Peek(m, str + k) # prefix[k + 1]}
        first == CHOOSE k \in diff : \A j \in diff : k <= j
    IN  IF prefix_len > str_len
        THEN [ok |-> FALSE, reads |-> {}]
        ELSE IF diff = {}
        THEN [ok |-> TRUE, reads |-> {str + k : k \in 0 .. (prefix_len - 1)}]
        ELSE [ok |-> FALSE, reads |-> {str + k : k \in 0 .. first}]

type_valid(m, bytes, len) == starts_with(m, bytes, len, RECORD_TYPE_SCHEME)

(* tnf != TNF_URI || !type_valid(type, type_length), and what it reads *)
wrong_type(m, rec) ==
    IF rec.tnf # TNF_URI
    THEN [wrong |-> TRUE, reads |-> {}]
    ELSE LET v == type_valid(m, rec.type, rec.type_length)
         IN  [wrong |-> ~v.ok, reads |-> v.reads]

(* The outcome of get_records. calls lists the (offset, length) pairs
   handed to get_record, in order; phases lists the indices read by each
   step taken: first get_record, its type check, second get_record, its
   type check. *)
Outcome(r, meta, data, phases, cl) ==
    [ret |-> r, meta_rec |-> meta, data_rec |-> data, phases |-> phases,
     calls |-> cl]

(* Lines 455-461: the first record r1 passed its check w1; r2 is the result
   of the second get_record and w2 the check of what meta_rec then holds. *)
second_record(r1, w1, r2, w2, cl) ==
    IF r2.ret < 0
    THEN Outcome(r2.ret, r2.record, r1.record,
                 <<r1.reads, w1.reads, r2.reads>>, cl)
    ELSE IF w2.wrong
    THEN Outcome(ERR_REC_WRONG_TYPE, r2.record, r1.record,
                 <<r1.reads, w1.reads, r2.reads, w2.reads>>, cl)
    ELSE Outcome(SUCCESS, r2.record, r1.record,
                 <<r1.reads, w1.reads, r2.reads, w2.reads>>, cl)

(* first_record going on to the second record after a failed type check. *)
first_record_no_check(m, buf_len, meta, r1, w1) ==
    IF r1.ret < 0
    THEN Outcome(r1.ret, meta, r1.record, <<r1.reads>>,
                 << <<0, buf_len>> >>)
    ELSE LET r2 == get_record(m, r1.ret, buf_len - r1.ret, meta)
         IN  second_record(r1, w1, r2, wrong_type(m, r2.record),
                           << <<0, buf_len>>, <<r1.ret, buf_len - r1.ret>> >>)

(* Lines 450-455: r1 is the result of the first get_record and w1 the check
   of what data_rec then holds. *)
first_record(m, buf_len, meta, r1, w1) ==
    IF r1.ret < 0
    THEN Outcome(r1.ret, meta, r1.record, <<r1.reads>>,
                 << <<0, buf_len>> >>)
    ELSE IF w1.wrong
    THEN Outcome(ERR_REC_WRONG_TYPE, meta, r1.record,
                 <<r1.reads, w1.reads>>, << <<0, buf_len>> >>)
    ELSE \* ret = get_record(buf + ret, buf_len - ret, meta_rec)
         LET r2 == get_record(m, r1.ret, buf_len - r1.ret, meta)
         IN  second_record(r1, w1, r2, wrong_type(m, r2.record),
                           << <<0, buf_len>>, <<r1.ret, buf_len - r1.ret>> >>)

(* get_records(buf, buf_len, meta_rec, data_rec) *)
get_records(m, buf_len, meta, data) ==
    LET r1 == get_record(m, 0, buf_len, data)
    IN  first_record(m, buf_len, meta, r1, wrong_type(m, r1.record))

----------------------------------------------------------------------------
(* Primitive codec. A decoder takes the bytes at its pointer as a sequence
   b (b[1] is bytes[0]); an encoder yields the bytes it writes, first byte
   first. Values of 8 and 16 bits and int32_t values are integers. A
   uint32_t is its two 16-bit halves (U32). A 64-bit value is its four
   16-bit limbs, most significant first; the first limb of an int64_t is
   signed (-32768 .. 32767), so the value is
   v[1] * 2^48 + v[2] * 2^32 + v[3] * 2^16 + v[4]. *)

(* Conversion of an int value to int16_t: reduced modulo 2^16. *)
Int16(n) == ((n + 32768) % UINT16_MOD) - 32768

bytes_to_uint8(b) == b[1]

bytes_to_uint16(b) == (b[1] * 256 + b[2]) % UINT16_MOD

(* The eight shifted bytes occupy disjoint bits of the sum: two per limb. *)
bytes_to_uint64(b) ==
    << b[1] * 256 + b[2], b[3] * 256 + b[4],
       b[5] * 256 + b[6], b[7] * 256 + b[8] >>

uint8_to_bytes(val) == << val % 256 >>

uint16_to_bytes(val) == << (val \div 256) % 256, val % 256 >>

uint32_to_bytes(val) ==
    << (val.hi \div 256) % 256, val.hi % 256,
       (val.lo \div 256) % 256, val.lo % 256 >>

uint64_to_bytes(val) ==
    << (val[1] \div 256) % 256, val[1] % 256,
       (val[2] \div 256) % 256, val[2] % 256,
       (val[3] \div 256) % 256, val[3] % 256,
       (val[4] \div 256) % 256, val[4] % 256 >>

(* (int8_t) of a byte *)
bytes_to_int8(b) == IF b[1] >= 128 THEN b[1] - 256 ELSE b[1]

(* i += bytes[0]; i <<= 8; i += bytes[1] in int16_t: each operation is done
   in int and its result converted back to int16_t. *)
bytes_to_int16(b) == Int16(Int16(Int16(0 + b[1]) * 256) + b[2])

(* i <<= 8 for an int32_t i. The shift of a negative i, or one whose result
   is above INT32_MAX, is undefined (ub); val is then the result of a
   shift that drops the bits shifted out, in two's complement. *)
Shl8Int32(i) ==
    LET low == i % 16777216
    IN  [ub |-> i < 0 \/ i > 8388607,
         val |-> IF low >= 8388608 THEN (low - 16777216) * 256
                                   ELSE low * 256]

(* The steps "i <<= 8; i += bytes[k - 1]" of bytes_to_int32 from byte k on;
   acc.val is i, acc.ub whether a step so far was undefined. *)
RECURSIVE Int32Steps(_, _, _)
Int32Steps(b, k, acc) ==
    IF k > 4 THEN acc
    ELSE Int32Steps(b, k + 1,
                    [ub |-> acc.ub \/ Shl8Int32(acc.val).ub,
                     val |-> Shl8Int32(acc.val).val + b[k]])

bytes_to_int32(b) == Int32Steps(b, 2, [ub |-> FALSE, val |-> 0 + b[1]])

(* i <<= 8 for an int64_t i, by limbs; ub as for Shl8Int32. *)
Shl8Int64(v) ==
    LET top == v[1] * 256 + v[2] \div 256
    IN  [ub |-> v[1] < 0 \/ top > 32767,
         val |-> << Int16(top),
                    (v[2] % 256) * 256 + v[3] \div 256,
                    (v[3] % 256) * 256 + v[4] \div 256,
                    (v[4] % 256) * 256 >>]

(* i += byte for an int64_t i, by limbs, with the carries. *)
Int64AddByte(v, byte) ==
    LET s4 == v[4] + byte
        s3 == v[3] + s4 \div UINT16_MOD
        s2 == v[2] + s3 \div UINT16_MOD
    IN  << Int16(v[1] + s2 \div UINT16_MOD), s2 % UINT16_MOD,
           s3 % UINT16_MOD, s4 % UINT16_MOD >>

(* The steps "i <<= 8; i += bytes[k - 1]" of bytes_to_int64 from byte k. *)
RECURSIVE Int64Steps(_, _, _)
Int64Steps(b, k, acc) ==
    IF k > 8 THEN acc
    ELSE Int64Steps(b, k + 1,
                    [ub |-> acc.ub \/ Shl8Int64(acc.val).ub,
                     val |-> Int64AddByte(Shl8Int64(acc.val).val, b[k])])

bytes_to_int64(b) ==
    Int64Steps(b, 2, [ub |-> FALSE,
                       val |-> Int64AddByte(<<0, 0, 0, 0>>, b[1])])

int8_to_bytes(val) == << val % 256 >>

(* The last n bytes a signed encoder writes: bytes[n - 1] = (uint8_t) val;
   val >>= 8; and so on down to bytes[0]. The right shift of a negative
   value is arithmetic. *)
RECURSIVE IntBytes(_, _)
IntBytes(val, n) ==
    IF n = 0 THEN << >>
    ELSE Append(IntBytes(val \div 256, n - 1), val % 256)

int16_to_bytes(val) == IntBytes(val, 2)

int32_to_bytes(val) == IntBytes(val, 4)

(* val >>= 8 for an int64_t, by limbs (arithmetic in the signed limb). *)
Sar8Int64(v) ==
    << v[1] \div 256,
       (v[1] % 256) * 256 + v[2] \div 256,
       (v[2] % 256) * 256 + v[3] \div 256,
       (v[3] % 256) * 256 + v[4] \div 256 >>

RECURSIVE Int64Bytes(_, _)
Int64Bytes(v, n) ==
    IF n = 0 THEN << >>
    ELSE Append(Int64Bytes(Sar8Int64(v), n - 1), v[4] % 256)

int64_to_bytes(val) == Int64Bytes(val, 8)

----------------------------------------------------------------------------
(* Domain codec. A decoder whose result may come out of an undefined shift
   yields [ub, val] like bytes_to_int32. *)

(* The bytes from bytes + n on. *)
From(b, n) == SubSeq(b, n + 1, Len(b))

bytes_to_time_point(b) == bytes_to_int64(b)

time_point_to_bytes(val) == int64_to_bytes(val)

bytes_to_hh_mm_ss(b) ==
    [hours |-> bytes_to_uint8(b),
     minutes |-> bytes_to_uint8(From(b, 1)),
     seconds |-> bytes_to_uint8(From(b, 2))]

hh_mm_ss_to_bytes(val) ==
    uint8_to_bytes(val.hours) \o uint8_to_bytes(val.minutes)
        \o uint8_to_bytes(val.seconds)

bytes_to_date_range(b) ==
    [ub |-> bytes_to_time_point(b).ub \/ bytes_to_time_point(From(b, 8)).ub,
     val |-> [from |-> bytes_to_time_point(b).val,
              to |-> bytes_to_time_point(From(b, 8)).val]]

date_range_to_bytes(val) ==
    time_point_to_bytes(val.from) \o time_point_to_bytes(val.to)

bytes_to_time_range(b) ==
    [from |-> bytes_to_hh_mm_ss(b), to |-> bytes_to_hh_mm_ss(From(b, 3))]

time_range_to_bytes(val) ==
    hh_mm_ss_to_bytes(val.from) \o hh_mm_ss_to_bytes(val.to)

bytes_to_zone_offset(b) == bytes_to_int16(b)

zone_offset_to_bytes(val) == int16_to_bytes(val)

bytes_to_zoned_time(b) ==
    [ub |-> bytes_to_time_point(b).ub,
     val |-> [time |-> bytes_to_time_point(b).val,
              offset |-> bytes_to_zone_offset(From(b, 8))]]

zoned_time_to_bytes(val) ==
    time_point_to_bytes(val.time) \o zone_offset_to_bytes(val.offset)

bytes_to_fixp32(b, scale) ==
    [ub |-> bytes_to_int32(b).ub,
     val |-> [unscaled |-> bytes_to_int32(b).val, scale |-> scale]]

fixp32_to_bytes(val) == int32_to_bytes(val.unscaled)

bytes_to_fixp64(b, scale) ==
    [ub |-> bytes_to_int64(b).ub,
     val |-> [unscaled |-> bytes_to_int64(b).val, scale |-> scale]]

fixp64_to_bytes(val) == int64_to_bytes(val.unscaled)

----------------------------------------------------------------------------
(* Bitmap option checker *)

(* is_option_selected with the mask counted from the most significant
   bit. *)
is_option_selected_msb(bitmap, bitmap_len, option) ==
    IF ~(option < bitmap_len * 8)
    THEN [abort |-> TRUE, ret |-> 0, reads |-> {}]
    ELSE LET map_index == option \div 8
             byte_index == option % 8
             b == bitmap[map_index + 1]
             mask == 128 \div (2 ^ byte_index)
         IN  [abort |-> FALSE,
              ret |-> IF BitAnd(b, mask) # 0 THEN 1 ELSE 0,
              reads |-> {map_index}]

(* abort: the assertion option < bitmap_len * 8 failed. reads: the indices
   of bitmap that were read. *)
is_option_selected(bitmap, bitmap_len, option) ==
    IF ~(option < bitmap_len * 8)
    THEN [abort |-> TRUE, ret |-> 0, reads |-> {}]
    ELSE LET map_index == option \div 8
             byte_index == option % 8
             b == bitmap[map_index + 1]
             mask == (1 * 2 ^ byte_index) % 256
         IN  [abort |-> FALSE,
              ret |-> IF BitAnd(b, mask) # 0 THEN 1 ELSE 0,
              reads |-> {map_index}]

----------------------------------------------------------------------------
(* Inputs *)

SeqsUpTo(S, n) == UNION {[1 .. k -> S] : k \in 0 .. n}

(* Null, other type / length 1, NDEF / length 3, terminator, extended. *)
TlvBytes == {0, 1, 3, 254, 255}

(* 0x00 and 0x01: long record, no id; 0x13: short record, no id, URI;
   0xFF: short record with id. *)
RecBytes == {0, 1, 19, 255}

(* The buffers named in the specification's examples. *)
ExampleBufs ==
    { <<1, 0, 3, 2, 170, 187, 254>>,
      <<3, 2, 170>>,
      <<3, 255, 255, 255>>,
      <<19, 1, 2, 85, 170, 187>> }

ShortRec(tnf, type, payload) ==
    <<16 + tnf, Len(type), Len(payload)>> \o type \o payload

ShortIdRec(tnf, type, id, payload) ==
    <<24 + tnf, Len(type), Len(payload), Len(id)>> \o type \o id \o payload

(* A long record whose payload-length field holds the four bytes pl4. *)
LongRec(tnf, type, pl4, payload) ==
    <<tnf, Len(type)>> \o pl4 \o type \o payload

LongIdRec(tnf, type, pl4, id, payload) ==
    <<8 + tnf, Len(type)>> \o pl4 \o <<Len(id)>> \o type \o id \o payload

SchemeLen == Len(RECORD_TYPE_SCHEME)

(* Records of a message: well-formed ones, ones of the wrong TNF or type,
   and ones whose declared payload length is close to 2^32. *)
MsgRecords ==
    { ShortRec(TNF_URI, RECORD_TYPE_SCHEME, <<7>>),
      ShortIdRec(TNF_URI, RECORD_TYPE_SCHEME \o <<47>>, <<9>>, <<>>),
      LongRec(TNF_URI, RECORD_TYPE_SCHEME, <<0, 0, 0, 1>>, <<7>>),
      LongIdRec(TNF_URI, RECORD_TYPE_SCHEME, <<0, 0, 0, 0>>, <<9>>, <<>>),
      ShortRec(1, RECORD_TYPE_SCHEME, <<>>),
      ShortRec(TNF_URI, SubSeq(RECORD_TYPE_SCHEME, 1, SchemeLen - 1) \o <<0>>,
               <<>>),
      ShortRec(TNF_URI, SubSeq(RECORD_TYPE_SCHEME, 1, SchemeLen - 1), <<>>),
      LongRec(TNF_URI, RECORD_TYPE_SCHEME, <<255, 255, 255, 211>>, <<>>),
      LongRec(TNF_URI, RECORD_TYPE_SCHEME, <<255, 255, 255, 255>>, <<>>) }

Cut(s, k) == SubSeq(s, 1, IF Len(s) > k THEN Len(s) - k ELSE 0)

MsgBufs ==
    { Cut(r1 \o r2, k) : r1 \in MsgRecords,
                         r2 \in MsgRecords \cup SeqsUpTo(RecBytes, 2),
                         k \in 0 .. MaxCut }

Bufs ==
    SeqsUpTo(TlvBytes, MaxTlvLen) \cup SeqsUpTo(RecBytes, MaxRecLen)
        \cup ExampleBufs \cup MsgBufs

(* What may lie behind the buffer: TailLen bytes, repeated. *)
Tails == [1 .. TailLen -> {0, 255}]

ZeroTail == [k \in 1 .. TailLen |-> 0]

(* The tails to tell apart for a call that reads the indices rd when zeros
   lie behind the buffer b: a call that stays inside b never sees them. *)
TailsFor(rd, b) == IF OutOfBounds(rd, Len(b)) = {} THEN {ZeroTail} ELSE Tails

(* Contents of a caller's ndef_record before the call. *)
ZeroRecord ==
    [tnf |-> 0, type_length |-> 0, type |-> NULL, id_length |-> 0,
     id |-> NULL, payload_length |-> U32(0), payload |-> NULL]

StaleRecord ==
    [tnf |-> 7, type_length |-> 255, type |-> 0, id_length |-> 255,
     id |-> 0, payload_length |-> [hi |-> 65535, lo |-> 65535],
     payload |-> 0]

InitRecords == {ZeroRecord, StaleRecord}

----------------------------------------------------------------------------
(* The state machine: a caller holding buf calls one of the functions.
   pre is what the caller's records held before the call; offset_p starts
   at 0, which no store of get_ndef_tlv_offset produces (it stores an index
   behind an entry header, at least 2). *)

Init ==
    /\ buf \in Bufs
    /\ pre \in InitRecords
    /\ op = "none"
    /\ pc = "idle"
    /\ index = 0
    /\ iters = 0
    /\ ret = 0
    /\ offset_p = 0
    /\ reads = {}
    /\ oob = <<>>
    /\ calls = <<>>
    /\ record = pre
    /\ data_rec = pre
    /\ meta_rec = pre
    /\ ctype = "none"
    /\ value = 0
    /\ buffer = << >>
    /\ before = << >>
    /\ dec = 0
    /\ scale_arg = 0

(* get_ndef_tlv_offset is entered: size_t index = 0 *)
ScanEnter ==
    /\ pc = "idle"
    /\ op' = "get_ndef_tlv_offset"
    /\ pc' = "scan"
    /\ index' = 0
    /\ UNCHANGED <<buf, pre, iters, ret, offset_p, reads, oob, calls,
                   record, data_rec, meta_rec>>
    /\ UNCHANGED <<ctype, value, buffer, before, dec, scale_arg>>

(* One pass through the while loop of get_ndef_tlv_offset. *)
ScanStep ==
    /\ pc = "scan"
    /\ \E t \in TailsFor(tlv_iteration(Mem(buf, ZeroTail), Len(buf),
                                        index).reads, buf),
          fault \in BOOLEAN :
        LET it == tlv_iteration(Mem(buf, t), Len(buf), index)
            bad == OutOfBounds(it.reads, Len(buf)) # {}
        IN  /\ fault => bad
            /\ reads' = reads \cup it.reads
            /\ oob' = IF bad THEN t ELSE oob
            /\ IF fault
               THEN /\ pc' = "fault"
                    /\ UNCHANGED <<index, iters, ret, offset_p>>
               ELSE /\ index' = it.index
                    /\ iters' = IF it.kind = "exit" THEN iters ELSE iters + 1
                    /\ pc' = IF it.kind = "continue" THEN "scan" ELSE "done"
                    /\ ret' = CASE it.kind = "return" -> it.length
                                [] it.kind = "continue" -> ret
                                [] OTHER -> 0
                    /\ offset_p' = IF it.kind = "return"
                                   THEN it.index ELSE offset_p
    /\ UNCHANGED <<buf, pre, op, calls, record, data_rec, meta_rec>>
    /\ UNCHANGED <<ctype, value, buffer, before, dec, scale_arg>>

(* get_record(buf, buf_len, &record) *)
GetRecord ==
    /\ pc = "idle"
    /\ \E t \in TailsFor(get_record(Mem(buf, ZeroTail), 0, Len(buf),
                                     record).reads, buf),
          fault \in BOOLEAN :
        LET r == get_record(Mem(buf, t), 0, Len(buf), record)
            bad == OutOfBounds(r.reads, Len(buf)) # {}
        IN  /\ fault => bad
            /\ reads' = r.reads
            /\ oob' = IF bad THEN t ELSE <<>>
            /\ IF fault
               THEN pc' = "fault" /\ UNCHANGED <<ret, record>>
               ELSE pc' = "done" /\ ret' = r.ret /\ record' = r.record
    /\ op' = "get_record"
    /\ calls' = << <<0, Len(buf)>> >>
    /\ UNCHANGED <<buf, pre, index, iters, offset_p, data_rec, meta_rec>>
    /\ UNCHANGED <<ctype, value, buffer, before, dec, scale_arg>>

AllReads(phases) == UNION {phases[k] : k \in 1 .. Len(phases)}

(* The first step of a get_records call that reads out of bounds, 0 if none *)
FaultPhase(phases, buf_len) ==
    LET bad == {k \in 1 .. Len(phases) : OutOfBounds(phases[k], buf_len) # {}}
    IN  IF bad = {} THEN 0 ELSE CHOOSE k \in bad : \A j \in bad : k <= j

(* get_records(buf, buf_len, &meta_rec, &data_rec) *)
GetRecords ==
    /\ pc = "idle"
    /\ \E t \in TailsFor(AllReads(get_records(Mem(buf, ZeroTail), Len(buf),
                                               meta_rec, data_rec).phases),
                          buf),
          fault \in BOOLEAN :
        LET r == get_records(Mem(buf, t), Len(buf), meta_rec, data_rec)
            fp == FaultPhase(r.phases, Len(buf))
            n == IF fault THEN fp ELSE Len(r.phases)
        IN  /\ fault => fp > 0
            /\ reads' = UNION {r.phases[k] : k \in 1 .. n}
            /\ oob' = IF fp > 0 THEN t ELSE <<>>
            /\ calls' = IF fault /\ fp < 3 THEN << r.calls[1] >> ELSE r.calls
            /\ IF fault
               THEN /\ pc' = "fault"
                    /\ data_rec' = IF fp > 1 THEN r.data_rec ELSE data_rec
                    /\ meta_rec' = IF fp > 3 THEN r.meta_rec ELSE meta_rec
                    /\ UNCHANGED ret
               ELSE /\ pc' = "done"
                    /\ ret' = r.ret
                    /\ data_rec' = r.data_rec
                    /\ meta_rec' = r.meta_rec
    /\ op' = "get_records"
    /\ UNCHANGED <<buf, pre, index, iters, offset_p, record>>
    /\ UNCHANGED <<ctype, value, buffer, before, dec, scale_arg>>

Next == ScanEnter \/ ScanStep \/ GetRecord \/ GetRecords

Spec == Init /\ [][Next]_vars

----------------------------------------------------------------------------
(* Inputs of the codec *)

(* Words built from these bytes cover 0, 1, the sign change and the maximum
   of every byte position. *)
ByteVals == {0, 1, 2, 127, 128, 254, 255}

Words == {h * 256 + l : h, l \in ByteVals}

(* 772 = 0x0304, 49152 = 0xC000 *)
HalfVals == {0, 1, 258, 772, 32767, 32768, 49152, 65534, 65535}

UInt32Vals == {[hi |-> h, lo |-> l] : h, l \in HalfVals}

Int32Vals == {ToInt(u) : u \in UInt32Vals}

UInt64Vals ==
    [1 .. 4 -> {0, 32768, 65535}]
      \cup {<<0, 0, 0, 1>>, <<32767, 65535, 65535, 65535>>,
            <<32767, 65535, 65535, 65534>>, <<65535, 65535, 65535, 65534>>,
            <<32768, 0, 0, 1>>, <<49152, 0, 0, 0>>,
            <<16383, 65535, 65535, 65535>>, <<258, 772, 1286, 1800>>}

Int64Vals == {<<Int16(u[1]), u[2], u[3], u[4]>> : u \in UInt64Vals}

(* INT64_MIN, -1, 0, 1, INT64_MAX and 0x0102030405060708 *)
TimePoints ==
    {<<-32768, 0, 0, 0>>, <<-1, 65535, 65535, 65535>>, <<0, 0, 0, 0>>,
     <<0, 0, 0, 1>>, <<32767, 65535, 65535, 65535>>,
     <<258, 772, 1286, 1800>>}

Times ==
    {[hours |-> h, minutes |-> m, seconds |-> s] :
        h \in {0, 23, 24, 255}, m \in {0, 59, 60, 255},
        s \in {0, 59, 60, 255}}

RangeTimes ==
    {[hours |-> 0, minutes |-> 0, seconds |-> 0],
     [hours |-> 1, minutes |-> 2, seconds |-> 3],
     [hours |-> 23, minutes |-> 59, seconds |-> 59],
     [hours |-> 24, minutes |-> 60, seconds |-> 60],
     [hours |-> 255, minutes |-> 255, seconds |-> 255]}

ZoneOffsets == {-32768, -60, -1, 0, 60, 32767}

(* INT32_MIN, INT32_MIN + 1, -1, 0, 1, 0x01020304, INT32_MAX *)
Unscaled32 ==
    {-2147483647 - 1, -2147483647, -1, 0, 1, 16909060, 2147483647}

Scales == {-2147483647 - 1, -1, 0, 2, 2147483647}

CTypes ==
    {"uint8", "uint16", "uint32", "uint64", "int8", "int16", "int32",
     "int64", "time_point", "hh_mm_ss", "date_range", "time_range",
     "zone_offset", "zoned_time", "fixp32", "fixp64"}

(* The number of bytes the type's encoder writes. *)
Width(t) ==
    CASE t \in {"uint8", "int8"} -> 1
      [] t \in {"uint16", "int16", "zone_offset"} -> 2
      [] t = "hh_mm_ss" -> 3
      [] t \in {"uint32", "int32", "fixp32"} -> 4
      [] t = "time_range" -> 6
      [] t \in {"uint64", "int64", "time_point", "fixp64"} -> 8
      [] t = "zoned_time" -> 10
      [] t = "date_range" -> 16

Values(t) ==
    CASE t = "uint8" -> 0 .. 255
      [] t = "int8" -> -128 .. 127
      [] t = "uint16" -> Words
      [] t = "int16" -> {Int16(w) : w \in Words}
      [] t = "uint32" -> UInt32Vals
      [] t = "int32" -> Int32Vals
      [] t = "uint64" -> UInt64Vals
      [] t = "int64" -> Int64Vals
      [] t = "time_point" -> Int64Vals
      [] t = "hh_mm_ss" -> Times
      [] t = "date_range" ->
            {[from |-> f, to |-> u] : f, u \in TimePoints}
      [] t = "time_range" ->
            {[from |-> f, to |-> u] : f, u \in RangeTimes}
      [] t = "zone_offset" -> ZoneOffsets
      [] t = "zoned_time" ->
            {[time |-> p, offset |-> z] : p \in TimePoints,
                                           z \in ZoneOffsets}
      [] t = "fixp32" ->
            {[unscaled |-> u, scale |-> s] : u \in Unscaled32, s \in Scales}
      [] t = "fixp64" ->
            {[unscaled |-> u, scale |-> s] : u \in TimePoints, s \in Scales}

(* What the caller's buffer of n bytes holds before the call. *)
Fills(n) ==
    {[k \in 1 .. n |-> 0], [k \in 1 .. n |-> 165], [k \in 1 .. n |-> 255],
     [k \in 1 .. n |-> IF k = 1 THEN 128 ELSE 0]}

BitmapBytes == {0, 1, 5, 128, 255}

Bitmaps == SeqsUpTo(BitmapBytes, MaxBitmapLen)

(* option is a uint8_t *)
Options == (0 .. 8 * MaxBitmapLen + 1) \cup {255}

----------------------------------------------------------------------------
(* The codec state machine: a caller holds a value of type ctype and a
   buffer of Width(ctype) + SpareBytes bytes (before: its content before
   the call). It encodes the value into the buffer, or decodes what the
   buffer holds (dec), or both in turn. scale_arg is the scale argument of
   the last bytes_to_fixp32 / bytes_to_fixp64 call. For ctype = "bitmap"
   the buffer is a bitmap and value the option asked for. *)

codec == <<ctype, value, buffer, before, dec, scale_arg>>

framing == <<buf, pre, index, iters, offset_p, oob, calls, record,
             data_rec, meta_rec>>

(* The call of the encoder of type t. *)
Encoded(t, v) ==
    CASE t = "uint8" -> uint8_to_bytes(v)
      [] t = "uint16" -> uint16_to_bytes(v)
      [] t = "uint32" -> uint32_to_bytes(v)
      [] t = "uint64" -> uint64_to_bytes(v)
      [] t = "int8" -> int8_to_bytes(v)
      [] t = "int16" -> int16_to_bytes(v)
      [] t = "int32" -> int32_to_bytes(v)
      [] t = "int64" -> int64_to_bytes(v)
      [] t = "time_point" -> time_point_to_bytes(v)
      [] t = "hh_mm_ss" -> hh_mm_ss_to_bytes(v)
      [] t = "date_range" -> date_range_to_bytes(v)
      [] t = "time_range" -> time_range_to_bytes(v)
      [] t = "zone_offset" -> zone_offset_to_bytes(v)
      [] t = "zoned_time" -> zoned_time_to_bytes(v)
      [] t = "fixp32" -> fixp32_to_bytes(v)
      [] t = "fixp64" -> fixp64_to_bytes(v)

Defined(v) == [ub |-> FALSE, val |-> v]

(* The call of the decoder of type t on the bytes b, with scale s. *)
Decoded(t, b, s) ==
    CASE t = "uint8" -> Defined(bytes_to_uint8(b))
      [] t = "uint16" -> Defined(bytes_to_uint16(b))
      [] t = "uint32" -> Defined(bytes_to_uint32(Mem(b, ZeroTail), 0))
      [] t = "uint64" -> Defined(bytes_to_uint64(b))
      [] t = "int8" -> Defined(bytes_to_int8(b))
      [] t = "int16" -> Defined(bytes_to_int16(b))
      [] t = "int32" -> bytes_to_int32(b)
      [] t = "int64" -> bytes_to_int64(b)
      [] t = "time_point" -> bytes_to_time_point(b)
      [] t = "hh_mm_ss" -> Defined(bytes_to_hh_mm_ss(b))
      [] t = "date_range" -> bytes_to_date_range(b)
      [] t = "time_range" -> Defined(bytes_to_time_range(b))
      [] t = "zone_offset" -> Defined(bytes_to_zone_offset(b))
      [] t = "zoned_time" -> bytes_to_zoned_time(b)
      [] t = "fixp32" -> bytes_to_fixp32(b, s)
      [] t = "fixp64" -> bytes_to_fixp64(b, s)

(* The buffer b after a store of the bytes w at its start. *)
Store(b, w) == [k \in 1 .. Len(b) |-> IF k <= Len(w) THEN w[k] ELSE b[k]]

CodecInit ==
    /\ \/ /\ ctype \in CTypes
          /\ value \in Values(ctype)
          /\ before \in Fills(Width(ctype) + SpareBytes)
       \/ /\ ctype = "bitmap"
          /\ value \in Options
          /\ before \in Bitmaps
    /\ buffer = before
    /\ dec = 0
    /\ scale_arg = 0
    /\ buf = << >>
    /\ pre = ZeroRecord
    /\ op = "none"
    /\ pc = "idle"
    /\ index = 0
    /\ iters = 0
    /\ ret = 0
    /\ offset_p = 0
    /\ reads = {}
    /\ oob = <<>>
    /\ calls = <<>>
    /\ record = pre
    /\ data_rec = pre
    /\ meta_rec = pre

(* <type>_to_bytes(val, bytes) *)
Encode ==
    /\ pc = "idle"
    /\ ctype \in CTypes
    /\ buffer' = Store(buffer, Encoded(ctype, value))
    /\ op' = "encode"
    /\ pc' = "encoded"
    /\ UNCHANGED <<ctype, value, before, dec, scale_arg, ret, reads>>
    /\ UNCHANGED framing

(* dec = bytes_to_<type>(bytes), on the buffer as the caller got it or as
   the encoder left it. A decoder that makes an undefined shift either
   traps or goes on with the shifted-out bits dropped. *)
Decode ==
    /\ pc \in {"idle", "encoded"}
    /\ ctype \in CTypes
    /\ \E s \in IF ctype \in {"fixp32", "fixp64"} THEN Scales ELSE {0},
          fault \in BOOLEAN :
        LET d == Decoded(ctype, buffer, s)
        IN  /\ fault => d.ub
            /\ scale_arg' = s
            /\ IF fault
               THEN pc' = "fault" /\ UNCHANGED dec
               ELSE pc' = "done" /\ dec' = d.val
    /\ op' = IF pc = "encoded" THEN "round_trip" ELSE "decode"
    /\ UNCHANGED <<ctype, value, buffer, before, ret, reads>>
    /\ UNCHANGED framing

(* ret = is_option_selected(bitmap, bitmap_len, option) *)
IsOptionSelected ==
    /\ pc = "idle"
    /\ ctype = "bitmap"
    /\ LET r == is_option_selected(buffer, Len(buffer), value)
       IN  /\ reads' = r.reads
           /\ IF r.abort
              THEN pc' = "abort" /\ UNCHANGED ret
              ELSE pc' = "done" /\ ret' = r.ret
    /\ op' = "is_option_selected"
    /\ UNCHANGED codec
    /\ UNCHANGED framing

CodecNext == Encode \/ Decode \/ IsOptionSelected

CodecSpec == CodecInit /\ [][CodecNext]_vars

----------------------------------------------------------------------------
(* Helpers of the properties *)

(* The memory the last call saw: the buffer, and behind it the bytes its
   out-of-bounds reads returned (none read: any bytes). *)
SeenMem == Mem(buf, IF oob = <<>> THEN <<0>> ELSE oob)

ScanDone == op = "get_ndef_tlv_offset" /\ pc = "done"

RecordDone == op = "get_record" /\ pc = "done"

RecordsDone == op = "get_records" /\ pc = "done"

(* Flag tests on the flags byte, by bit position. *)
FlagSR(flags) == (flags % 32) >= 16

FlagIL(flags) == (flags % 16) >= 8

(* Width of a record header with these flags: flags, type length, payload
   length (1 or 4 bytes) and the optional id length byte. *)
HeaderWidth(flags) ==
    2 + (IF FlagSR(flags) THEN 1 ELSE 4) + (IF FlagIL(flags) THEN 1 ELSE 0)

(* For a buffer b that holds its whole header: b is shorter than header +
   type + id + payload, the sum taken in the integers. The declared payload
   length is compared by its halves: a long record with a non-zero high
   half declares at least 65536 bytes. *)
ShorterThanRecord(b) ==
    LET flags == b[1]
        H == HeaderWidth(flags)
        tl == b[2]
        il == IF FlagIL(flags) THEN b[H] ELSE 0
    IN  IF FlagSR(flags)
        THEN Len(b) < H + tl + il + b[3]
        ELSE \/ b[3] * 256 + b[4] > 0
             \/ Len(b) < H + tl + il + b[5] * 256 + b[6]

(* buf_len < header widths + type length + id length + payload length *)
MathTruncated(b) ==
    \/ Len(b) < 2
    \/ Len(b) < HeaderWidth(b[1])
    \/ ShorterThanRecord(b)

----------------------------------------------------------------------------
(* Properties *)

(* C1: every index at which get_ndef_tlv_offset reads buf is strictly less
   than buf_len (type byte, short length byte, both extended length
   bytes). *)
C1_ScanReadsInBounds ==
    op = "get_ndef_tlv_offset" => \A i \in reads : i < Len(buf)

(* C2: every index that get_record reads is strictly less than buf_len, and
   a buffer shorter than its own header (a buffer of exactly 2 bytes is
   one) is rejected with ERR_REC_BUF_TRUNCATED. *)
C2_RecordReadsInBounds ==
    op = "get_record" =>
        /\ \A i \in reads : i < Len(buf)
        /\ (pc = "done" /\ Len(buf) >= 1 /\ Len(buf) < HeaderWidth(buf[1]))
              => ret = ERR_REC_BUF_TRUNCATED

(* C3: get_record returns ERR_REC_BUF_TRUNCATED exactly when buf_len is less
   than the non-wrapping sum of header widths, type length, id length and
   payload length. *)
C3_TruncatedIffShort ==
    RecordDone => (ret = ERR_REC_BUF_TRUNCATED <=> MathTruncated(buf))

(* C4: whenever get_ndef_tlv_offset returns a non-zero length L with offset
   o, the value lies inside the buffer: o + L <= buf_len. *)
C4_NdefValueInsideBuffer ==
    (ScanDone /\ ret # 0) => offset_p + ret <= Len(buf)

(* The walk of the TLV entries of b from index i that C5 describes. *)
NotFound == [found |-> FALSE, length |-> 0, offset |-> 0]

RECURSIVE RefWalk(_, _)
RefWalk(b, i) ==
    IF i >= Len(b) THEN NotFound
    ELSE IF b[i + 1] = 0 THEN RefWalk(b, i + 1)
    ELSE IF b[i + 1] = 254 THEN NotFound
    ELSE LET ext == b[i + 2] = 255
             hdr == IF ext THEN 4 ELSE 2
             len == IF ext THEN b[i + 3] * 256 + b[i + 4] ELSE b[i + 2]
         IN  IF ext /\ len = 65535 THEN NotFound
             ELSE IF b[i + 1] = 3
             THEN [found |-> TRUE, length |-> len, offset |-> i + hdr]
             ELSE RefWalk(b, i + hdr + len)

(* Every entry the walk from i meets, up to and including the first NDEF
   entry, has its header and its value inside b (an entry of the reserved
   length 0xFFFF: its header). *)
RECURSIVE WellFormedFrom(_, _)
WellFormedFrom(b, i) ==
    IF i >= Len(b) THEN TRUE
    ELSE IF b[i + 1] = 0 THEN WellFormedFrom(b, i + 1)
    ELSE IF b[i + 1] = 254 THEN TRUE
    ELSE /\ i + 2 <= Len(b)
         /\ b[i + 2] = 255 => i + 4 <= Len(b)
         /\ LET ext == b[i + 2] = 255
                hdr == IF ext THEN 4 ELSE 2
                len == IF ext THEN b[i + 3] * 256 + b[i + 4] ELSE b[i + 2]
            IN  \/ ext /\ len = 65535
                \/ /\ i + hdr + len <= Len(b)
                   /\ b[i + 1] # 3 => WellFormedFrom(b, i + hdr + len)

(* C5: on a buffer whose entries lie fully inside it, get_ndef_tlv_offset
   agrees with the reference walk: the first NDEF entry reached gives the
   returned length and the stored offset; a walk that ends with not-found
   gives 0 and no store to the offset. *)
C5_ScanAgreesWithWalk ==
    (op = "get_ndef_tlv_offset" /\ WellFormedFrom(buf, 0)) =>
        /\ pc # "fault"
        /\ pc = "done" =>
             IF RefWalk(buf, 0).found
             THEN /\ ret = RefWalk(buf, 0).length
                  /\ offset_p = RefWalk(buf, 0).offset
             ELSE ret = 0 /\ offset_p = 0

(* An NDEF entry of non-zero length found behind a skipped entry. *)
C5_Witness ==
    /\ ScanDone
    /\ WellFormedFrom(buf, 0)
    /\ ret > 0
    /\ offset_p >= 4

(* C6: whenever get_record succeeds, the record holds tnf = flags & 0x07,
   the type length byte and the type at offset H, the id length byte (0
   without one) and the id at H + type_length (NULL for an empty id), the
   payload length (byte 2, or bytes 2..5 big-endian) and the payload at
   H + type_length + id_length; a short record without id consumes
   3 + type_length + payload_length bytes. *)
C6_RecordLayout ==
    (RecordDone /\ ret >= 0) =>
        LET flags == Peek(SeenMem, 0)
            H == HeaderWidth(flags)
            tl == Peek(SeenMem, 1)
            il == IF FlagIL(flags) THEN Peek(SeenMem, H - 1) ELSE 0
            pl == IF FlagSR(flags)
                  THEN [hi |-> 0, lo |-> Peek(SeenMem, 2)]
                  ELSE [hi |-> Peek(SeenMem, 2) * 256 + Peek(SeenMem, 3),
                        lo |-> Peek(SeenMem, 4) * 256 + Peek(SeenMem, 5)]
        IN  /\ record.tnf = flags % 8
            /\ record.type_length = tl
            /\ record.type = H
            /\ record.id_length = il
            /\ record.id = IF il > 0 THEN H + tl ELSE NULL
            /\ record.payload_length = pl
            /\ record.payload = H + tl + il
            /\ (FlagSR(flags) /\ ~FlagIL(flags)) => ret = 3 + tl + pl.lo

(* A record with a type and an id was decoded. *)
C6_Witness ==
    /\ RecordDone
    /\ ret >= 0
    /\ record.type_length > 0
    /\ record.id # NULL

(* C7: whenever get_record returns an error code, every field of the
   caller's record is what it was before the call. *)
C7_ErrorLeavesRecord ==
    (RecordDone /\ ret < 0) => record = pre

(* A record whose header was read inside the buffer was found truncated,
   the caller's record holding an earlier result. *)
C7_Witness ==
    /\ RecordDone
    /\ ret = ERR_REC_BUF_TRUNCATED
    /\ reads # {}
    /\ OutOfBounds(reads, Len(buf)) = {}
    /\ pre = StaleRecord

(* C8: the first record is decoded at byte 0 of the buffer, the second at
   the byte behind the last payload byte of the first, an offset of at
   least 3, with the remaining length buf_len - offset. *)
C8_SecondRecordFollowsFirst ==
    (op = "get_records" /\ Len(calls) = 2) =>
        /\ calls[1] = <<0, Len(buf)>>
        /\ calls[2][1] >= 3
        /\ data_rec.payload_length.hi = 0
        /\ calls[2][1] = data_rec.payload + data_rec.payload_length.lo
        /\ calls[2][2] = Len(buf) - calls[2][1]
        /\ calls[2][2] <= Len(buf)

(* The type field of rec starts with the scheme string, byte for byte. *)
HasScheme(rec) ==
    /\ rec.type_length >= Len(RECORD_TYPE_SCHEME)
    /\ \A k \in 1 .. Len(RECORD_TYPE_SCHEME) :
           Peek(SeenMem, rec.type + k - 1) = RECORD_TYPE_SCHEME[k]

(* What get_record makes of the buffer's first record. *)
FirstRecord == get_record(SeenMem, 0, Len(buf), pre)

(* C9: if the first record fails, the second is not decoded: a truncated
   first record gives ERR_REC_BUF_TRUNCATED, a decoded one of another TNF
   or type gives ERR_REC_WRONG_TYPE, meta_rec is left unchanged and nothing
   behind the first record's header and type is read. *)
C9_FirstFailureStops ==
    RecordsDone =>
        /\ FirstRecord.ret < 0 =>
              /\ ret = ERR_REC_BUF_TRUNCATED
              /\ Len(calls) = 1
              /\ meta_rec = pre
              /\ \A i \in reads : i < HeaderWidth(Peek(SeenMem, 0))
        /\ (/\ FirstRecord.ret >= 0
            /\ (FirstRecord.record.tnf # TNF_URI
                  \/ ~HasScheme(FirstRecord.record))) =>
              /\ ret = ERR_REC_WRONG_TYPE
              /\ Len(calls) = 1
              /\ meta_rec = pre
              /\ \A i \in reads : i < FirstRecord.record.type
                                        + FirstRecord.record.type_length

(* A first record of TNF URI and another type was rejected, with a second
   record behind it in the buffer. *)
C9_Witness ==
    /\ RecordsDone
    /\ ret = ERR_REC_WRONG_TYPE
    /\ data_rec.tnf = TNF_URI
    /\ pre = StaleRecord
    /\ Len(buf) > data_rec.payload + data_rec.payload_length.lo + 2

(* C10: whenever get_records returns a value other than SUCCESS, both
   data_rec and meta_rec are what they were before the call. *)
C10_FailureLeavesRecords ==
    (RecordsDone /\ ret # SUCCESS) => data_rec = pre /\ meta_rec = pre

(* The record at the start of b, read by the wire format with all sums
   taken in the integers: the number of bytes it spans (for a record that
   is not truncated, so a long record's payload length is below 65536). *)
RecordSpan(b) ==
    LET flags == b[1]
        H == HeaderWidth(flags)
        il == IF FlagIL(flags) THEN b[H] ELSE 0
        pl == IF FlagSR(flags) THEN b[3] ELSE b[5] * 256 + b[6]
    IN  H + b[2] + il + pl

(* b starts with a whole record of TNF URI whose type starts with the
   scheme string. *)
WholeSchemeRecord(b) ==
    /\ ~MathTruncated(b)
    /\ b[1] % 8 = TNF_URI
    /\ b[2] >= Len(RECORD_TYPE_SCHEME)
    /\ \A k \in 1 .. Len(RECORD_TYPE_SCHEME) :
           b[HeaderWidth(b[1]) + k] = RECORD_TYPE_SCHEME[k]

(* b holds two such records, the second starting where the first ends. *)
TwoSchemeRecords(b) ==
    /\ WholeSchemeRecord(b)
    /\ WholeSchemeRecord(SubSeq(b, RecordSpan(b) + 1, Len(b)))

(* C11: get_records returns SUCCESS exactly when the buffer holds two
   consecutive records that are not truncated, each of TNF URI with a type
   of at least the scheme's length that starts with the scheme string;
   every other return value is ERR_REC_BUF_TRUNCATED or
   ERR_REC_WRONG_TYPE. *)
C11_SuccessIffBothValid ==
    RecordsDone =>
        /\ ret = SUCCESS <=> TwoSchemeRecords(buf)
        /\ ret # SUCCESS =>
              ret \in {ERR_REC_BUF_TRUNCATED, ERR_REC_WRONG_TYPE}

(* C16: the scan loop of get_ndef_tlv_offset terminates: an iteration that
   does not return or break moves the scan index forward, by exactly 1 over
   a null byte and by at least 2 over any other entry, and no call makes
   more than buf_len iterations, whatever the buffer holds. *)
C16_ScanTerminates ==
    /\ [](op = "get_ndef_tlv_offset" => iters <= Len(buf))
    /\ [][(pc = "scan" /\ pc' = "scan") =>
            /\ index < Len(buf)
            /\ iters' = iters + 1
            /\ IF buf[index + 1] = TLV_TYPE_NULL
               THEN index' = index + 1
               ELSE index' >= index + 2]_vars

(* A scan that stepped over a null byte and then over an entry whose
   declared length points behind the end of the buffer. *)
C16_Witness ==
    /\ ScanDone
    /\ Len(buf) >= 1
    /\ buf[1] = TLV_TYPE_NULL
    /\ iters >= 2
    /\ index > Len(buf)
    /\ OutOfBounds(reads, Len(buf)) = {}

(* The integer types and the domain types built from them. *)
RoundTripTypes == CTypes \ {"fixp32", "fixp64"}

(* C12: for every integer width, signed and unsigned, and every domain
   type built from them, decoding the bytes the type's encoder wrote for a
   value v returns v, for every v (minimum, maximum, -1 and hh_mm_ss
   fields beyond 23 / 59 / 59 included). *)
C12_RoundTrip ==
    (op = "round_trip" /\ ctype \in RoundTripTypes) =>
        pc = "done" /\ dec = value

IntTypes ==
    {"uint8", "uint16", "uint32", "uint64", "int8", "int16", "int32",
     "int64"}

(* The two bytes of a 16-bit word, most significant first, and back. *)
WordBytes(w) == << w \div 256, w % 256 >>

Word(b, k) == b[k] * 256 + b[k + 1]

(* A 16-bit word read as two's complement. *)
Signed16(w) == IF w >= 32768 THEN w - UINT16_MOD ELSE w

(* Byte k of the sequence is bits [8(N-1-k), 8(N-k)) of the two's
   complement representation of v in N bytes. *)
BigEndian(t, v) ==
    CASE t \in {"uint8", "int8"} -> << v % 256 >>
      [] t \in {"uint16", "int16"} -> WordBytes(v % UINT16_MOD)
      [] t = "uint32" -> WordBytes(v.hi) \o WordBytes(v.lo)
      [] t = "int32" -> WordBytes((v \div UINT16_MOD) % UINT16_MOD)
                            \o WordBytes(v % UINT16_MOD)
      [] t \in {"uint64", "int64"} ->
            WordBytes(v[1] % UINT16_MOD) \o WordBytes(v[2])
                \o WordBytes(v[3]) \o WordBytes(v[4])

(* The sum of b[k] * 256^(N-1-k), for a signed type read as two's
   complement, in the representation of the type's values. *)
BigEndianValue(t, b) ==
    CASE t = "uint8" -> b[1]
      [] t = "int8" -> IF b[1] >= 128 THEN b[1] - 256 ELSE b[1]
      [] t = "uint16" -> Word(b, 1)
      [] t = "int16" -> Signed16(Word(b, 1))
      [] t = "uint32" -> [hi |-> Word(b, 1), lo |-> Word(b, 3)]
      [] t = "int32" -> Signed16(Word(b, 1)) * UINT16_MOD + Word(b, 3)
      [] t = "uint64" -> << Word(b, 1), Word(b, 3), Word(b, 5), Word(b, 7) >>
      [] t = "int64" ->
            << Signed16(Word(b, 1)), Word(b, 3), Word(b, 5), Word(b, 7) >>

(* The bytes of the buffer that hold the value of the type. *)
Wire == SubSeq(buffer, 1, Width(ctype))

(* C13: the integer encoders write the two's complement representation of
   the value most significant byte first (uint32 0x01020304 as 01 02 03 04,
   int16 -1 as FF FF), and the integer decoders return the big-endian sum
   of the bytes, read as two's complement for the signed types (80 00 as
   the int16 -32768). *)
C13_BigEndianWire ==
    ctype \in IntTypes =>
        /\ op \in {"encode", "round_trip"} =>
              Wire = BigEndian(ctype, value)
        /\ op \in {"decode", "round_trip"} =>
              pc = "done" /\ dec = BigEndianValue(ctype, Wire)
        /\ (op = "encode" /\ ctype = "uint32"
              /\ value = [hi |-> 258, lo |-> 772]) => Wire = <<1, 2, 3, 4>>
        /\ (op = "encode" /\ ctype = "int16" /\ value = -1) =>
              Wire = <<255, 255>>
        /\ (op = "decode" /\ ctype = "int16" /\ Wire = <<128, 0>>) =>
              dec = -32768

(* The integer type of a fixed-point type's unscaled value. *)
UnscaledType == IF ctype = "fixp32" THEN "int32" ELSE "int64"

(* C14: fixp32_to_bytes and fixp64_to_bytes write the unscaled value only,
   4 resp. 8 bytes that do not depend on the scale, and leave the bytes
   behind them as they were; bytes_to_fixp32 / bytes_to_fixp64 (bytes, s)
   return the unscaled value decoded from the bytes with scale s, so that
   {unscaled: u, scale: a} encoded and decoded with scale b is
   {unscaled: u, scale: b}. *)
C14_FixedPointAsymmetry ==
    ctype \in {"fixp32", "fixp64"} =>
        /\ op \in {"encode", "round_trip"} =>
              /\ Wire = BigEndian(UnscaledType, value.unscaled)
              /\ \A k \in Width(ctype) + 1 .. Len(buffer) :
                     buffer[k] = before[k]
        /\ op \in {"decode", "round_trip"} =>
              /\ pc = "done"
              /\ dec = [unscaled |-> BigEndianValue(UnscaledType, Wire),
                        scale |-> scale_arg]
        /\ op = "round_trip" =>
              dec = [unscaled |-> value.unscaled, scale |-> scale_arg]

(* C15: for option < bitmap_len * 8, is_option_selected returns 1 if bit
   (option mod 8), counted from the least significant bit, of byte
   bitmap[option div 8] is set and 0 otherwise, reads no other byte and
   modifies nothing; for option >= bitmap_len * 8 (bitmap_len = 0
   included) the assertion fails before any byte of the bitmap is read. *)
C15_OptionBit ==
    op = "is_option_selected" =>
        /\ buffer = before
        /\ IF value < Len(buffer) * 8
           THEN /\ pc = "done"
                /\ reads = {value \div 8}
                /\ ret = (buffer[(value \div 8) + 1] \div (2 ^ (value % 8))) % 2
           ELSE /\ pc = "abort"
                /\ reads = {}

(* Bit 2 of the second byte of a bitmap was found set. *)
C15_Witness ==
    /\ op = "is_option_selected"
    /\ pc = "done"
    /\ value = 10
    /\ ret = 1

====
